---------------------------- MODULE Spec2Model ----------------------------
(***************************************************************************)
(* A model of the basic_blockchain node: src/app/models.py (Block,        *)
(* Blockchain) and the request handlers of src/app/main.py.               *)
(*                                                                         *)
(* Python values are modelled as follows.                                  *)
(*  - A block is a record with the five fields of Block plus `kind`:      *)
(*    "Block" for an instance of class Block (attribute access and        *)
(*    .hash() work), "dict" for a record parsed from a peer's JSON        *)
(*    (attribute access raises AttributeError).                            *)
(*  - A previous_hash value is a tuple: <<"None">>, <<"int", n>>,         *)
(*    <<"str", s>> or a digest <<"sha256", ...>>.                         *)
(*  - SHA-256 over the canonical JSON of a block is modelled as           *)
(*    collision free: the digest is the tuple of the serialised fields.   *)
(*  - SHA-256 of the proof-of-work guess is a small modular digest of the *)
(*    decimal text; "starts with 0000" is "the digest is 0".              *)
(*  - An exception is the name of the exception class, "none" if none.    *)
(***************************************************************************)
EXTENDS Integers, Sequences, FiniteSets, TLC

\* The largest number of blocks the local chain is allowed to grow to.
MaxChain == 3
\* The largest number of client transactions waiting in the pool.
MaxPool == 1
\* The number of values of the proof-of-work digest (16^4 in the code).
DigestSpace == 7
\* The longest honest chain a peer serves.
MaxPeerChain == 3
MaxMined == 2
\* The largest last_proof proof_of_work is called with directly
MaxLastProof == 100

VARIABLES
    chain,                 \* Blockchain.chain
    current_transactions,  \* Blockchain.current_transactions
    nodes,                 \* Blockchain.nodes
    clock,                 \* what time() returns next
    response,              \* the reply of the last request: [op, error, value]
    fetched,               \* the peer replies read by the last resolve_conflicts
    promised,              \* the index new_transaction returned for each pooled transaction
    threads,               \* the requests in progress, with their local variables
    call,                  \* a direct call of valid_chain: its argument and result
    heap,                  \* the list objects behind the pool and the blocks, in direct calls
    search                 \* a direct call of proof_of_work: its argument and result

ledger == <<chain, current_transactions, nodes, clock, response, fetched, promised>>
vars == <<chain, current_transactions, nodes, clock, response, fetched, promised,
          threads, call, heap, search>>

----------------------------------------------------------------------------
(* Python values *)

PyNone == <<"None">>
PyInt(n) == <<"int", n>>
PyStr(s) == <<"str", s>>

\* bool(v) for a previous_hash argument
Truthy(v) == v # PyNone /\ v # PyInt(0) /\ v # PyStr("")

Last(s) == s[Len(s)]
Front(s) == SubSeq(s, 1, Len(s) - 1)

----------------------------------------------------------------------------
(* Block *)

Block(index, timestamp, transactions, proof, previous_hash) ==
    [kind |-> "Block", index |-> index, timestamp |-> timestamp,
     transactions |-> transactions, proof |-> proof,
     previous_hash |-> previous_hash]

\* A hash that leaves the transactions out of the serialised fields
hash_without_transactions(block) ==
    <<"sha256", block.index, block.previous_hash, block.proof, block.timestamp>>

\* Block.hash: sha256 of json.dumps(fields, sort_keys=True)
hash(block) ==
    <<"sha256", block.index, block.previous_hash, block.proof,
      block.timestamp, block.transactions>>

\* What a block becomes on the wire: FastAPI encodes the object's fields,
\* response.json() parses them into a dict.
ToJson(block) == [block EXCEPT !.kind = "dict"]

Transaction(sender, recipient, amount) ==
    [sender |-> sender, recipient |-> recipient, amount |-> amount]

----------------------------------------------------------------------------
(* Proof of work *)

GenesisProof == 100
GenesisPreviousHash == PyInt(1)

RECURSIVE DecimalText(_)
\* f"{n}": the decimal digits of n
DecimalText(n) ==
    IF n < 10 THEN <<n>> ELSE Append(DecimalText(n \div 10), n % 10)

RECURSIVE Sha256Prefix(_)
\* hashlib.sha256(guess).hexdigest()[:4], as a number in 0..DigestSpace-1
Sha256Prefix(text) ==
    IF text = <<>> THEN 1
    ELSE (Sha256Prefix(Front(text)) * 31 + Last(text) + 1) % DigestSpace

valid_proof(last_proof, proof) ==
    Sha256Prefix(DecimalText(last_proof) \o DecimalText(proof)) = 0

RECURSIVE ProofSearch(_, _)
ProofSearch(last_proof, proof) ==
    IF valid_proof(last_proof, proof) THEN proof
    ELSE ProofSearch(last_proof, proof + 1)

\* The search started at 1
proof_of_work_from_one(last_proof) == ProofSearch(last_proof, 1)

proof_of_work(last_proof) == ProofSearch(last_proof, 0)

----------------------------------------------------------------------------
(* Blockchain methods, as functions of the fields they read *)

last_block(ch) == ch[Len(ch)]

\* new_block that leaves the pool as it is
new_block_keeps_pool(ch, txs, proof, previous_hash, now) ==
    LET block == Block(Len(ch) + 1, now, txs, proof,
                       IF Truthy(previous_hash) THEN previous_hash
                       ELSE hash(last_block(ch)))
    IN  [chain |-> Append(ch, block),
         current_transactions |-> txs,
         block |-> block]

\* new_block sealing an empty list and dropping the pool
new_block_seals_nothing(ch, txs, proof, previous_hash, now) ==
    LET block == Block(Len(ch) + 1, now, <<>>, proof,
                       IF Truthy(previous_hash) THEN previous_hash
                       ELSE hash(last_block(ch)))
    IN  [chain |-> Append(ch, block),
         current_transactions |-> <<>>,
         block |-> block]

\* new_block: the new chain, the new pool and the block
new_block(ch, txs, proof, previous_hash, now) ==
    LET block == Block(Len(ch) + 1, now, txs, proof,
                       IF Truthy(previous_hash) THEN previous_hash
                       ELSE hash(last_block(ch)))
    IN  [chain |-> Append(ch, block),
         current_transactions |-> <<>>,
         block |-> block]

\* new_transaction returning the index of the last block, not of the next one
new_transaction_last_index(ch, txs, sender, recipient, amount) ==
    [current_transactions |-> Append(txs, Transaction(sender, recipient, amount)),
     error |-> IF last_block(ch).kind = "Block" THEN "none" ELSE "AttributeError",
     value |-> IF last_block(ch).kind = "Block" THEN last_block(ch).index ELSE 0]

\* new_transaction: the pool after the append, then last_block.index + 1
new_transaction(ch, txs, sender, recipient, amount) ==
    LET pool == Append(txs, Transaction(sender, recipient, amount))
    IN  IF last_block(ch).kind = "Block"
        THEN [current_transactions |-> pool, error |-> "none",
              value |-> last_block(ch).index + 1]
        ELSE [current_transactions |-> pool, error |-> "AttributeError",
              value |-> 0]

RECURSIVE ValidChainLoop(_, _, _)
\* The loop without the proof-of-work check
ValidChainLoop_no_proof(ch, last, current_index) ==
    IF current_index > Len(ch) THEN "True"
    ELSE LET block == ch[current_index]
         IN  IF block.kind # "Block" \/ last.kind # "Block"
                 THEN "AttributeError"
             ELSE IF block.previous_hash # hash(last) THEN "False"
             ELSE ValidChainLoop(ch, block, current_index + 1)

\* the while loop of valid_chain; current_index is the 1-based position of block
ValidChainLoop(ch, last, current_index) ==
    IF current_index > Len(ch) THEN "True"
    ELSE LET block == ch[current_index]
         IN  IF block.kind # "Block" \/ last.kind # "Block"
                 THEN "AttributeError"
             ELSE IF block.previous_hash # hash(last) THEN "False"
             ELSE IF ~valid_proof(last.proof, block.proof) THEN "False"
             ELSE ValidChainLoop(ch, block, current_index + 1)

\* valid_chain answering True for an empty list
valid_chain_empty_true(ch) ==
    IF Len(ch) = 0 THEN "True"
    ELSE ValidChainLoop(ch, ch[1], 2)

\* valid_chain: "True", "False" or the exception raised
valid_chain(ch) ==
    IF Len(ch) = 0 THEN "IndexError"
    ELSE ValidChainLoop(ch, ch[1], 2)


\* register_node: the netloc urlparse finds.  An address is [form, host, path];
\* urlparse only finds a netloc after "//", so a bare host:port has none.
Netloc(address) == IF address.form = "url" THEN address.host ELSE ""

register_node(ns, address) == ns \cup {Netloc(address)}

RECURSIVE RegisterAll(_, _)
\* the loop of register_nodes over the request's list
RegisterAll(ns, addresses) ==
    IF addresses = <<>> THEN ns
    ELSE RegisterAll(register_node(ns, addresses[1]), Tail(addresses))

----------------------------------------------------------------------------
(* The /mine handler, as a function of the ledger it runs on *)

\* /mine sealing the block with the last proof again, without the search
mine_handler_no_search(ch, txs, now, identifier) ==
    LET last == last_block(ch) IN
    IF last.kind # "Block"
    THEN [error |-> "AttributeError", chain |-> ch,
          current_transactions |-> txs, value |-> 0]
    ELSE
    LET nt == new_transaction(ch, txs, "0", identifier, 1)
        nb == new_block(ch, nt.current_transactions, last.proof, hash(last), now)
    IN  [error |-> "none", chain |-> nb.chain,
         current_transactions |-> nb.current_transactions,
         value |-> nb.block.index]

mine_handler(ch, txs, now, identifier) ==
    LET last == last_block(ch) IN
    IF last.kind # "Block"
    THEN [error |-> "AttributeError", chain |-> ch,
          current_transactions |-> txs, value |-> 0]
    ELSE
    LET proof == proof_of_work(last.proof)
        nt == new_transaction(ch, txs, "0", identifier, 1)
        previous_hash == hash(last)
        nb == new_block(ch, nt.current_transactions, proof, previous_hash, now)
    IN  [error |-> "none", chain |-> nb.chain,
         current_transactions |-> nb.current_transactions,
         value |-> nb.block.index]

----------------------------------------------------------------------------
(* Peers *)

Hosts == {"p1", "p2"}

Addresses ==
    {[form |-> "bare", host |-> "p1", path |-> ""],
     [form |-> "url", host |-> "p1", path |-> ""],
     [form |-> "url", host |-> "p1", path |-> "/chain"],
     [form |-> "url", host |-> "p2", path |-> ""]}

RECURSIVE PeerChain(_)
\* The chain of a peer that runs this program and has mined n - 1 blocks.
PeerChain(n) ==
    IF n = 1
    THEN new_block(<<>>, <<>>, GenesisProof, GenesisPreviousHash, 10).chain
    ELSE mine_handler(PeerChain(n - 1), <<>>, 10 + n, "peer").chain

\* A chain of n blocks that is not valid: the second block's proof is changed.
ForgedChain(n) == [PeerChain(n) EXCEPT ![2].proof = @ + 1]

\* A chain of one block whose index field is not its position.
MisnumberedChain == <<[PeerChain(1)[1] EXCEPT !.index = 2]>>

JsonChain(ch) == [i \in 1..Len(ch) |-> ToJson(ch[i])]

Reply(status, length, ch) == [status |-> status, length |-> length, chain |-> ch]

NonSuccess == Reply("404", 0, <<>>)
NetworkError == Reply("ConnectionError", 0, <<>>)
InvalidURL == Reply("InvalidURL", 0, <<>>)

\* What requests.get(f"http://{node}/chain") may give for a host.
PeerReplies ==
    {NonSuccess, NetworkError}
    \cup {Reply("200", n, JsonChain(PeerChain(n))) : n \in 1..MaxPeerChain}
    \cup {Reply("200", MaxPeerChain + 3, JsonChain(ForgedChain(MaxPeerChain + 3)))}
    \cup {Reply("200", MaxPeerChain, JsonChain(PeerChain(1)))}

\* What a host that does not run this program may answer: a length that is not
\* the number of records, with one record, one misnumbered record, or none.
RogueReplies ==
    {NonSuccess,
     Reply("200", MaxPeerChain, JsonChain(PeerChain(1))),
     Reply("200", MaxPeerChain, JsonChain(MisnumberedChain)),
     Reply("200", MaxPeerChain, <<>>)}

\* What requests.get(f"http://{node}/chain") may give for a node of the registry:
\* an empty netloc is no URL.
RepliesOf(node) ==
    IF node = "" THEN {InvalidURL}
    ELSE IF node = "p2" THEN RogueReplies
    ELSE PeerReplies

\* What the loop of resolve_conflicts carries from one iteration to the next
Carried(error, max_length, new_chain) ==
    [error |-> error, max_length |-> max_length, new_chain |-> new_chain]

\* The iteration with `length >= max_length` for `length > max_length`
ResolveBody_ge(max_length, new_chain, r) ==
    IF r.status \notin {"200", "404"} THEN Carried(r.status, max_length, new_chain)
    ELSE IF r.status # "200" THEN Carried("none", max_length, new_chain)
    ELSE IF ~(r.length >= max_length) THEN Carried("none", max_length, new_chain)
    ELSE LET v == valid_chain(r.chain) IN
         IF v = "True" THEN Carried("none", r.length, r.chain)
         ELSE IF v = "False" THEN Carried("none", max_length, new_chain)
         ELSE Carried(v, max_length, new_chain)

\* One iteration of the loop of resolve_conflicts, for the reply r: the
\* exception it raises, or max_length and new_chain after it.  new_chain is <<>>
\* for None (both are false in `if new_chain`).
ResolveBody(max_length, new_chain, r) ==
    IF r.status \notin {"200", "404"} THEN Carried(r.status, max_length, new_chain)
    ELSE IF r.status # "200" THEN Carried("none", max_length, new_chain)
    ELSE IF ~(r.length > max_length) THEN Carried("none", max_length, new_chain)
    ELSE LET v == valid_chain(r.chain) IN
         IF v = "True" THEN Carried("none", r.length, r.chain)
         ELSE IF v = "False" THEN Carried("none", max_length, new_chain)
         ELSE Carried(v, max_length, new_chain)

RECURSIVE ResolveLoop(_, _, _, _)
\* The for loop of resolve_conflicts with the nodes in `todo` still to visit, in
\* any order and with any reply: the set of ways it can end.
ResolveLoop(todo, max_length, new_chain, log) ==
    IF todo = {}
    THEN {[error |-> "none", new_chain |-> new_chain, fetched |-> log]}
    ELSE UNION {UNION {
            LET after == ResolveBody(max_length, new_chain, r)
                seen == Append(log, [node |-> node, reply |-> r])
            IN  IF after.error # "none"
                THEN {[error |-> after.error, new_chain |-> new_chain, fetched |-> seen]}
                ELSE ResolveLoop(todo \ {node}, after.max_length, after.new_chain, seen) :
            r \in RepliesOf(node)} : node \in todo}

\* resolve_conflicts assigning new_chain to self.chain without `if new_chain`
ResolveEnd_unconditional(ch, r) ==
    IF r.error # "none"
        THEN [error |-> r.error, value |-> FALSE, chain |-> ch, fetched |-> r.fetched]
    ELSE [error |-> "none", value |-> TRUE, chain |-> r.new_chain,
          fetched |-> r.fetched]

\* How resolve_conflicts ends once its loop has ended as r: the exception, the
\* return value, the chain afterwards.
ResolveEnd(ch, r) ==
    IF r.error # "none"
        THEN [error |-> r.error, value |-> FALSE, chain |-> ch, fetched |-> r.fetched]
    ELSE IF r.new_chain # <<>>
        THEN [error |-> "none", value |-> TRUE, chain |-> r.new_chain,
              fetched |-> r.fetched]
    ELSE [error |-> "none", value |-> FALSE, chain |-> ch, fetched |-> r.fetched]

\* resolve_conflicts: the ways it can end
resolve_conflicts(ch, ns) ==
    {ResolveEnd(ch, r) : r \in ResolveLoop(ns, Len(ch), <<>>, <<>>)}

----------------------------------------------------------------------------
(* The node: one request at a time *)

NodeIdentifier == "node"

\* The transactions the methods are called with
Transactions == {Transaction("alice", "bob", 1), Transaction("bob", "alice", 2)}

\* The transactions clients post to the node
Posted == {Transaction("alice", "bob", 1)}

Result(op, error, value) == [op |-> op, error |-> error, value |-> value]

\* No request in progress
IdleMine ==
    [pc |-> "idle", last_block |-> <<>>, proof |-> 0, previous_hash |-> PyNone,
     block |-> <<>>]
IdleResolve ==
    [pc |-> "idle", todo |-> {}, size |-> 0, max_length |-> 0, new_chain |-> <<>>]
NoThreads == [mine |-> IdleMine, resolve |-> IdleResolve]
\* No direct call
NoCall == [original |-> <<>>, chain |-> <<>>, changed |-> "none", at |-> 0,
           result |-> "none"]

\* Blockchain.__init__ sealing the first block with proof 0
NodeInit_proof_zero ==
    LET nb == new_block(<<>>, <<>>, 0, GenesisPreviousHash, 0) IN
    /\ chain = nb.chain
    /\ current_transactions = nb.current_transactions
    /\ nodes = {}
    /\ clock = 1
    /\ response = Result("start", "none", 0)
    /\ fetched = <<>>
    /\ promised = <<>>

\* Blockchain.__init__ and the module level of main.py
NodeInit ==
    LET nb == new_block(<<>>, <<>>, GenesisProof, GenesisPreviousHash, 0) IN
    /\ chain = nb.chain
    /\ current_transactions = nb.current_transactions
    /\ nodes = {}
    /\ clock = 1
    /\ response = Result("start", "none", 0)
    /\ fetched = <<>>
    /\ promised = <<>>

\* The list objects: `lists` holds the contents of every list created, `pool` is
\* the list self.current_transactions is bound to, `blocks` the list each
\* block's transactions field is bound to.

\* self.current_transactions.append(transaction): the list changes in place
HeapNewTransaction(h, transaction) ==
    [h EXCEPT !.lists[h.pool] = Append(@, transaction)]

\* new_block emptying the pool's list in place, as self.current_transactions.clear()
HeapNewBlock_clear(h) ==
    [lists |-> [h.lists EXCEPT ![h.pool] = <<>>],
     pool |-> h.pool,
     blocks |-> Append(h.blocks, h.pool)]

\* Block(..., self.current_transactions, ...) takes the pool's list itself;
\* self.current_transactions = [] binds the pool to a new list
HeapNewBlock(h) ==
    [lists |-> Append(h.lists, <<>>),
     pool |-> Len(h.lists) + 1,
     blocks |-> Append(h.blocks, h.pool)]

\* Blockchain.__init__: self.current_transactions = [], then new_block
InitHeap == HeapNewBlock([lists |-> << <<>> >>, pool |-> 1, blocks |-> <<>>])

\* No direct call of proof_of_work
NoSearch == [pc |-> "none", last_proof |-> 0, proof |-> 0]

Init ==
    /\ NodeInit
    /\ threads = NoThreads
    /\ call = NoCall
    /\ heap = InitHeap
    /\ search = NoSearch

\* GET /mine
mine ==
    /\ Len(chain) < MaxChain
    /\ LET r == mine_handler(chain, current_transactions, clock, NodeIdentifier) IN
       /\ chain' = r.chain
       /\ current_transactions' = r.current_transactions
       /\ promised' = IF r.error = "none" THEN <<>> ELSE promised
       /\ clock' = IF r.error = "none" THEN clock + 1 ELSE clock
       /\ response' = Result("mine", r.error, r.value)
    /\ fetched' = <<>>
    /\ UNCHANGED nodes
    /\ UNCHANGED <<threads, call, heap, search>>

\* POST /transaction/new
new_transactions ==
    /\ Len(current_transactions) < MaxPool
    /\ \E t \in Posted :
        LET r == new_transaction(chain, current_transactions,
                                 t.sender, t.recipient, t.amount) IN
        /\ current_transactions' = r.current_transactions
        /\ promised' = Append(promised, r.value)
        /\ response' = Result("transaction", r.error, r.value)
    /\ fetched' = <<>>
    /\ UNCHANGED <<chain, nodes, clock>>
    /\ UNCHANGED <<threads, call, heap, search>>

\* GET /chain
full_chain ==
    /\ response' = Result("chain", "none", Len(chain))
    /\ fetched' = <<>>
    /\ UNCHANGED <<chain, current_transactions, nodes, clock, promised>>
    /\ UNCHANGED <<threads, call, heap, search>>

\* POST /node/register
register_nodes ==
    /\ \E n \in 1..2 : \E addresses \in [1..n -> Addresses] :
        /\ nodes' = RegisterAll(nodes, addresses)
        /\ response' = Result("register", "none", Cardinality(nodes'))
    /\ fetched' = <<>>
    /\ UNCHANGED <<chain, current_transactions, clock, promised>>
    /\ UNCHANGED <<threads, call, heap, search>>

\* GET /node/resolve
consensus ==
    /\ \E r \in resolve_conflicts(chain, nodes) :
        /\ chain' = r.chain
        /\ fetched' = r.fetched
        /\ response' = Result("resolve", r.error, IF r.value THEN 1 ELSE 0)
    /\ UNCHANGED <<current_transactions, nodes, clock, promised>>
    /\ UNCHANGED <<threads, call, heap, search>>

Next ==
    \/ mine
    \/ new_transactions
    \/ full_chain
    \/ register_nodes
    \/ consensus

Spec == Init /\ [][Next]_vars

----------------------------------------------------------------------------
(* The Blockchain methods called directly, as a test of the class calls them *)

\* The proofs new_block is called with: the one the search finds, and another
GivenProofs(ch) == {proof_of_work(last_block(ch).proof), 0}

\* The previous_hash arguments new_block is called with
GivenHashes(ch) ==
    {PyNone, PyInt(0), PyStr(""), GenesisPreviousHash, hash(last_block(ch))}

\* blockchain.new_block(proof, previous_hash)
ApiNewBlock ==
    /\ Len(chain) < MaxChain
    /\ \E proof \in GivenProofs(chain) : \E previous_hash \in GivenHashes(chain) :
        LET nb == new_block(chain, current_transactions, proof, previous_hash, clock) IN
        /\ chain' = nb.chain
        /\ current_transactions' = nb.current_transactions
        /\ response' = Result("new_block", "none", nb.block.index)
    /\ heap' = HeapNewBlock(heap)
    /\ promised' = <<>>
    /\ clock' = clock + 1
    /\ UNCHANGED <<nodes, fetched, threads, call, search>>

\* blockchain.new_transaction(sender, recipient, amount)
ApiNewTransaction ==
    /\ Len(current_transactions) <= MaxPool
    /\ \E t \in Transactions :
        LET r == new_transaction(chain, current_transactions,
                                 t.sender, t.recipient, t.amount) IN
        /\ current_transactions' = r.current_transactions
        /\ promised' = Append(promised, r.value)
        /\ response' = Result("new_transaction", r.error, r.value)
        /\ heap' = HeapNewTransaction(heap, Transaction(t.sender, t.recipient, t.amount))
    /\ UNCHANGED <<chain, nodes, clock, fetched, threads, call, search>>

NextApi == ApiNewBlock \/ ApiNewTransaction

SpecApi == Init /\ [][NextApi]_vars

----------------------------------------------------------------------------
(* valid_chain called directly on a list of Block objects *)

\* The first blocks of the lists: the genesis block and blocks that differ from
\* it in index, proof and previous_hash
FirstBlocks ==
    {Block(index, 0, <<>>, proof, previous_hash) :
        index \in {1, 5}, proof \in {GenesisProof, 0},
        previous_hash \in {GenesisPreviousHash, PyStr("")}}

\* The lists that extend list c by one block: with and without a transaction,
\* with the proof the search finds, the next valid one or an invalid one, with
\* the hash of the block before or another value
Extensions(c) ==
    LET last == Last(c)
        found == proof_of_work(last.proof)
    IN  {Append(c, Block(Len(c) + 1, Len(c), transactions, proof, previous_hash)) :
            transactions \in {<<>>, <<Transaction("alice", "bob", 1)>>},
            proof \in {found, ProofSearch(last.proof, found + 1), found + 1},
            previous_hash \in {hash(last), GenesisPreviousHash}}

RECURSIVE ListsOfLength(_)
ListsOfLength(n) ==
    IF n = 1 THEN {<<b>> : b \in FirstBlocks}
    ELSE UNION {Extensions(c) : c \in ListsOfLength(n - 1)}

\* The arguments valid_chain is called with
Candidates == UNION {ListsOfLength(n) : n \in 1..MaxChain}

Call(original, ch, changed, at, result) ==
    [original |-> original, chain |-> ch, changed |-> changed, at |-> at,
     result |-> result]

InitCheck ==
    /\ NodeInit
    /\ threads = NoThreads
    /\ heap = InitHeap
    /\ search = NoSearch
    /\ \E c \in Candidates : call = Call(c, c, "none", 0, "none")

Untouched == call.changed = "none" /\ call.result = "none"

\* block.proof = v for one block of the list
ChangeProof ==
    /\ Untouched
    /\ \E i \in 1..Len(call.chain) :
        \E v \in {call.chain[i].proof + 1,
                  IF i = 1 THEN 0
                  ELSE ProofSearch(call.chain[i - 1].proof, call.chain[i].proof + 1)} :
            /\ v # call.chain[i].proof
            /\ call' = [call EXCEPT !.chain[i].proof = v, !.changed = "proof", !.at = i]
    /\ UNCHANGED <<ledger, threads, heap, search>>

\* block.previous_hash = v for one block of the list
ChangePreviousHash ==
    /\ Untouched
    /\ \E i \in 1..Len(call.chain) :
        \E v \in {GenesisPreviousHash, PyStr(""), hash(call.chain[i])} :
            /\ v # call.chain[i].previous_hash
            /\ call' = [call EXCEPT !.chain[i].previous_hash = v,
                                    !.changed = "previous_hash", !.at = i]
    /\ UNCHANGED <<ledger, threads, heap, search>>

\* block.transactions = v for one block of the list
ChangeTransactions ==
    /\ Untouched
    /\ \E i \in 1..Len(call.chain) :
        \E v \in {<<>>} \cup {<<t>> : t \in Transactions} :
            /\ v # call.chain[i].transactions
            /\ call' = [call EXCEPT !.chain[i].transactions = v,
                                    !.changed = "transactions", !.at = i]
    /\ UNCHANGED <<ledger, threads, heap, search>>

\* blockchain.valid_chain(chain)
CallValidChain ==
    /\ call.result = "none"
    /\ call' = [call EXCEPT !.result = valid_chain(call.chain)]
    /\ UNCHANGED <<ledger, threads, heap, search>>

NextCheck ==
    \/ ChangeProof
    \/ ChangePreviousHash
    \/ ChangeTransactions
    \/ CallValidChain

SpecCheck == InitCheck /\ [][NextCheck]_vars

----------------------------------------------------------------------------
(* The Blockchain methods called directly on one ledger, resolve_conflicts    *)
(* and register_node among them.  new_block leaves `fetched`, the replies of  *)
(* the last resolve_conflicts, as it is.                                      *)

\* The previous_hash arguments: left out, or a value the caller computed
LedgerHashes == {PyNone, PyStr("given")}

\* blockchain.new_block(proof, previous_hash): with previous_hash left out it
\* calls last_block.hash(), which a JSON record does not have; the arguments
\* are evaluated before anything is assigned.
LedgerNewBlock ==
    /\ Len(chain) < MaxChain
    /\ clock <= MaxMined
    /\ \E previous_hash \in LedgerHashes :
        IF ~Truthy(previous_hash) /\ last_block(chain).kind # "Block"
        THEN /\ response' = Result("new_block", "AttributeError", 0)
             /\ UNCHANGED <<chain, current_transactions, promised>>
        ELSE LET nb == new_block(chain, current_transactions, 0,
                                 previous_hash, clock) IN
             /\ chain' = nb.chain
             /\ current_transactions' = nb.current_transactions
             /\ promised' = <<>>
             /\ response' = Result("new_block", "none", nb.block.index)
    /\ clock' = clock + 1
    /\ UNCHANGED <<nodes, fetched, threads, call, heap, search>>

\* blockchain.new_transaction(sender, recipient, amount)
LedgerNewTransaction ==
    /\ Len(current_transactions) < MaxPool
    /\ \E t \in Posted :
        LET r == new_transaction(chain, current_transactions,
                                 t.sender, t.recipient, t.amount) IN
        /\ current_transactions' = r.current_transactions
        /\ promised' = Append(promised, r.value)
        /\ response' = Result("new_transaction", r.error, r.value)
    /\ fetched' = <<>>
    /\ UNCHANGED <<chain, nodes, clock, threads, call, heap, search>>

\* The addresses register_node is called with: those of one peer
LedgerAddresses == {address \in Addresses : address.host = "p1"}

\* blockchain.register_node(address)
LedgerRegisterNode ==
    /\ \E address \in LedgerAddresses :
        /\ nodes' = register_node(nodes, address)
        /\ response' = Result("register_node", "none", Cardinality(nodes'))
    /\ fetched' = <<>>
    /\ UNCHANGED <<chain, current_transactions, clock, promised,
                   threads, call, heap, search>>

\* blockchain.resolve_conflicts()
LedgerResolveConflicts ==
    /\ \E r \in resolve_conflicts(chain, nodes) :
        /\ chain' = r.chain
        /\ fetched' = r.fetched
        /\ response' = Result("resolve_conflicts", r.error, IF r.value THEN 1 ELSE 0)
    /\ UNCHANGED <<current_transactions, nodes, clock, promised,
                   threads, call, heap, search>>

NextLedger ==
    \/ LedgerNewBlock
    \/ LedgerNewTransaction
    \/ LedgerRegisterNode
    \/ LedgerResolveConflicts

SpecLedger == Init /\ [][NextLedger]_vars

----------------------------------------------------------------------------
(* proof_of_work called directly, for every last_proof up to MaxLastProof *)

LastProofs == 0..MaxLastProof

InitSearch ==
    /\ NodeInit
    /\ threads = NoThreads
    /\ call = NoCall
    /\ heap = InitHeap
    /\ \E last_proof \in LastProofs :
        search = [pc |-> "called", last_proof |-> last_proof, proof |-> 0]

\* proof = blockchain.proof_of_work(last_proof)
CallProofOfWork ==
    /\ search.pc = "called"
    /\ search' = [search EXCEPT !.pc = "returned",
                                !.proof = proof_of_work(search.last_proof)]
    /\ UNCHANGED <<ledger, threads, call, heap>>

NextSearch == CallProofOfWork

SpecSearch == InitSearch /\ [][NextSearch]_vars

----------------------------------------------------------------------------
(* The node with requests that overlap.  mine and new_transactions are       *)
(* `async def` without an await: they run on the event loop, one at a time.  *)
(* register_nodes and consensus are `def`: each runs on a worker thread,     *)
(* whose statements interleave with those of the event loop.                 *)

MineAt(pc) == threads.mine.pc = pc
ResolveAt(pc) == threads.resolve.pc = pc

\* mine ends: with an exception, or with its return value
MineEnds(error, value) ==
    /\ threads' = [threads EXCEPT !.mine = IdleMine]
    /\ response' = Result("mine", error, value)

\* last_block = blockchain.last_block; last_proof = last_block.proof;
\* proof = blockchain.proof_of_work(last_proof)
MineRead ==
    /\ MineAt("idle")
    /\ Len(chain) < MaxChain
    /\ clock <= MaxMined
    /\ IF last_block(chain).kind = "Block"
       THEN /\ threads' = [threads EXCEPT
                             !.mine.pc = "reward",
                             !.mine.last_block = <<last_block(chain)>>,
                             !.mine.proof = proof_of_work(last_block(chain).proof)]
            /\ UNCHANGED response
       ELSE MineEnds("AttributeError", 0)
    /\ UNCHANGED <<chain, current_transactions, nodes, clock, fetched, promised, call, heap, search>>

\* blockchain.new_transaction(sender="0", recipient=node_indentifier, amount=1);
\* previous_hash = last_block.hash()
MineReward ==
    /\ MineAt("reward")
    /\ LET r == new_transaction(chain, current_transactions, "0", NodeIdentifier, 1) IN
       /\ current_transactions' = r.current_transactions
       /\ promised' = Append(promised, r.value)
       /\ IF r.error = "none"
          THEN /\ threads' = [threads EXCEPT
                                !.mine.pc = "block",
                                !.mine.previous_hash = hash(threads.mine.last_block[1])]
               /\ UNCHANGED response
          ELSE MineEnds(r.error, 0)
    /\ UNCHANGED <<chain, nodes, clock, fetched, call, heap, search>>

\* new_block: block = Block(len(self.chain) + 1, time(), ...);
\* self.current_transactions = []
NewBlockCreate ==
    /\ MineAt("block")
    /\ LET nb == new_block(chain, current_transactions, threads.mine.proof,
                           threads.mine.previous_hash, clock) IN
       /\ threads' = [threads EXCEPT !.mine.pc = "append", !.mine.block = <<nb.block>>]
       /\ current_transactions' = nb.current_transactions
    /\ promised' = <<>>
    /\ clock' = clock + 1
    /\ UNCHANGED <<chain, nodes, response, fetched, call, heap, search>>

\* new_block: self.chain.append(block); then mine returns
NewBlockAppend ==
    /\ MineAt("append")
    /\ chain' = Append(chain, threads.mine.block[1])
    /\ MineEnds("none", threads.mine.block[1].index)
    /\ UNCHANGED <<current_transactions, nodes, clock, fetched, promised, call, heap, search>>

\* POST /transaction/new, when the event loop is free
PostTransaction ==
    /\ MineAt("idle")
    /\ new_transactions

\* neighbours = self.nodes; new_chain = None; max_length = len(self.chain);
\* the for loop takes an iterator of the set
ResolveStart ==
    /\ ResolveAt("idle")
    /\ threads' = [threads EXCEPT
                     !.resolve = [pc |-> "loop", todo |-> nodes,
                                  size |-> Cardinality(nodes),
                                  max_length |-> Len(chain), new_chain |-> <<>>]]
    /\ UNCHANGED <<ledger, call, heap, search>>

\* One step of the for loop: the iterator raises RuntimeError when the set has
\* changed size, ends the loop when no node is left, or gives a node to fetch.
ResolveVisit ==
    /\ ResolveAt("loop")
    /\ UNCHANGED <<ledger, call, heap, search>>
    /\ IF Cardinality(nodes) # threads.resolve.size
       THEN /\ threads' = [threads EXCEPT !.resolve = IdleResolve]
            /\ UNCHANGED response
       ELSE IF threads.resolve.todo = {}
       THEN threads' = [threads EXCEPT !.resolve.pc = "end"]
       ELSE \E node \in threads.resolve.todo : \E r \in RepliesOf(node) :
            LET after == ResolveBody(threads.resolve.max_length,
                                     threads.resolve.new_chain, r) IN
            IF after.error # "none"
            THEN threads' = [threads EXCEPT !.resolve = IdleResolve]
            ELSE threads' = [threads EXCEPT
                               !.resolve.todo = @ \ {node},
                               !.resolve.max_length = after.max_length,
                               !.resolve.new_chain = after.new_chain]

\* if new_chain: self.chain = new_chain; return True.  return False
ResolveReplace ==
    /\ ResolveAt("end")
    /\ chain' = ResolveEnd(chain, [error |-> "none",
                                   new_chain |-> threads.resolve.new_chain,
                                   fetched |-> <<>>]).chain
    /\ threads' = [threads EXCEPT !.resolve = IdleResolve]
    /\ UNCHANGED <<current_transactions, nodes, clock, response, fetched, promised, call, heap, search>>

\* POST /node/register on a worker thread
RegisterNodes ==
    /\ \E n \in 1..2 : \E addresses \in [1..n -> Addresses] :
        nodes' = RegisterAll(nodes, addresses)
    /\ UNCHANGED <<chain, current_transactions, clock, response, fetched, promised,
                   threads, call, heap, search>>

NextThreads ==
    \/ MineRead
    \/ MineReward
    \/ NewBlockCreate
    \/ NewBlockAppend
    \/ PostTransaction
    \/ ResolveStart
    \/ ResolveVisit
    \/ ResolveReplace
    \/ RegisterNodes

SpecThreads == Init /\ [][NextThreads]_vars

----------------------------------------------------------------------------
(* Properties of the node serving one request at a time *)

\* The link invariant of a sequence of blocks, on the blocks' contents
LinkHolds(ch) ==
    \A i \in 2..Len(ch) :
        /\ ch[i].previous_hash = hash(ch[i - 1])
        /\ valid_proof(ch[i - 1].proof, ch[i].proof)

Reward == Transaction("0", NodeIdentifier, 1)

\* C1: in every state reached by requests served one at a time, every block
\* after the first names the hash of the block before it and carries a proof
\* valid against that block's proof, and valid_chain accepts the local chain.
C1_LinkInvariant == LinkHolds(chain) /\ valid_chain(chain) = "True"

\* A chain of three blocks, mined with a peer registered and a posted
\* transaction sealed in the third block.
C1_Witness ==
    Len(chain) >= 3 /\ nodes # {} /\ Len(chain[3].transactions) >= 2

\* The positions of the replies in log f that offer a chain longer than L whose
\* blocks are linked
Offers(f, L) ==
    {i \in 1..Len(f) :
        /\ f[i].reply.status = "200"
        /\ f[i].reply.length > L
        /\ Len(f[i].reply.chain) >= 1
        /\ LinkHolds(f[i].reply.chain)}

\* C2: a resolve whose peers all answer adopts the longest linked chain that is
\* longer than the local one (the first on ties) and returns True when there is
\* one, and keeps the local chain when there is none.
C2_LongestValidAdopted ==
    [][(/\ response'.op = "resolve"
        /\ \A i \in 1..Len(fetched') : fetched'[i].reply.status = "200")
       => LET good == Offers(fetched', Len(chain)) IN
          /\ good = {} => chain' = chain
          /\ good # {} =>
               /\ response'.error = "none"
               /\ response'.value = 1
               /\ \E i \in good :
                    /\ chain' = fetched'[i].reply.chain
                    /\ \A j \in good :
                         \/ fetched'[j].reply.length < fetched'[i].reply.length
                         \/ /\ fetched'[j].reply.length = fetched'[i].reply.length
                            /\ i <= j]_vars

\* C4: a resolve in which every registered peer answers with a length that is
\* at most the local length returns False and leaves the chain as it was.
C4_AuthoritativeKeepsChain ==
    [][(/\ response'.op = "resolve"
        /\ Len(fetched') = Cardinality(nodes)
        /\ \A i \in 1..Len(fetched') :
             /\ fetched'[i].reply.status = "200"
             /\ fetched'[i].reply.length <= Len(chain))
       => /\ response'.error = "none"
          /\ response'.value = 0
          /\ chain' = chain]_vars

\* A resolve over a chain of two blocks that asked a peer serving a chain of the
\* same length, and reported the local chain authoritative.
C4_Witness ==
    /\ response = Result("resolve", "none", 0)
    /\ Len(chain) >= 2
    /\ \E i \in 1..Len(fetched) : fetched[i].reply.length = Len(chain)
    /\ \A i \in 1..Len(fetched) :
         /\ fetched[i].reply.status = "200"
         /\ fetched[i].reply.length <= Len(chain)

\* C5: a resolve that met only failing peers (a non-success status or a network
\* error) still visits every peer and ends without an error.
C5_FailingPeersSkipped ==
    (/\ response.op = "resolve"
     /\ \A i \in 1..Len(fetched) :
          fetched[i].reply.status \in {"404", "ConnectionError"})
    => /\ response.error = "none"
       /\ Len(fetched) = Cardinality(nodes)

C10_MineAppendsOneBlock ==
    [][response'.op = "mine"
       => /\ Len(chain') = Len(chain) + 1
          /\ SubSeq(chain', 1, Len(chain)) = chain
          /\ Last(chain').proof = proof_of_work(Last(chain).proof)
          /\ Last(chain').previous_hash = hash(Last(chain))
          /\ Last(chain').transactions = Append(current_transactions, Reward)
          /\ current_transactions' = <<>>]_vars

----------------------------------------------------------------------------
(* Properties of the methods called directly *)

\* C6: new_block leaves the pool empty and seals exactly the pool it found, in
\* order; a new_transaction after it extends the pool by one and changes no
\* block of the chain.
C6_SealDrainsPool ==
    [][/\ response'.op = "new_block"
          => /\ current_transactions' = <<>>
             /\ Len(chain') = Len(chain) + 1
             /\ Last(chain').transactions = current_transactions
       /\ response'.op = "new_transaction"
          => /\ chain' = chain
             /\ Len(current_transactions') = Len(current_transactions) + 1
             /\ SubSeq(current_transactions', 1, Len(current_transactions))
                  = current_transactions]_vars

\* A transaction pooled after a block was sealed with two different
\* transactions.
C6_Witness ==
    /\ response.op = "new_transaction"
    /\ current_transactions # <<>>
    /\ Len(chain) >= 2
    /\ Len(Last(chain).transactions) = 2
    /\ Last(chain).transactions[1] # Last(chain).transactions[2]

----------------------------------------------------------------------------
(* Properties of valid_chain called directly *)

\* The call changed one field of one block of a list valid_chain accepts
Tampered ==
    /\ call.result # "none"
    /\ call.changed # "none"
    /\ valid_chain(call.original) = "True"

\* C7 as claimed: after a change of the proof, the previous_hash or the
\* transactions of any one block of an accepted list, valid_chain returns False.
C7_EveryChangeRejected == Tampered => call.result = "False"

\* C7 as amended: the change is rejected when the block is not the last one;
\* in the last block of a list of two or more a changed previous_hash is
\* rejected, a changed proof is rejected exactly when it fails valid_proof
\* against the proof before it, and changed transactions are accepted; a list of
\* one block is accepted whatever was changed.
C7_ChangeBeforeLastRejected ==
    Tampered =>
        LET n == Len(call.chain) IN
        /\ call.at < n => call.result = "False"
        /\ (call.at = n /\ n >= 2 /\ call.changed = "previous_hash")
              => call.result = "False"
        /\ (call.at = n /\ n >= 2 /\ call.changed = "proof")
              => (call.result = "False"
                    <=> ~valid_proof(call.chain[n - 1].proof, call.chain[n].proof))
        /\ (call.at = n /\ call.changed = "transactions") => call.result = "True"
        /\ n = 1 => call.result = "True"

\* The transactions of the second of three blocks changed, and the list
\* rejected.
C7_Witness ==
    /\ Tampered
    /\ Len(call.chain) = 3
    /\ call.at = 2
    /\ call.changed = "transactions"
    /\ call.result = "False"

\* C8: on a non-empty list of Block objects valid_chain returns True when every
\* block after the first names the hash of the block before it and has a proof
\* valid against that block's proof, and False otherwise.
C8_ValidIffLinked ==
    call.result # "none"
        => /\ call.result \in {"True", "False"}
           /\ call.result = "True" <=> LinkHolds(call.chain)

\* An accepted list of three blocks whose first block has index 5, proof 0 and
\* the empty string as previous_hash.
C8_Witness ==
    /\ call.result = "True"
    /\ Len(call.chain) = 3
    /\ call.chain[1].index = 5
    /\ call.chain[1].proof = 0
    /\ call.chain[1].previous_hash = PyStr("")

----------------------------------------------------------------------------
(* Properties of the node with overlapping requests *)

\* C3: with a resolve overlapping a mine, every block of the local chain still
\* names the hash of the block before it and has a proof valid against that
\* block's proof.
C3_LinkInvariantThreads == LinkHolds(chain)

----------------------------------------------------------------------------
(* Properties of the chain's shape, one request at a time *)

\* C11: in every state reached by mine, submit, register and resolve requests,
\* the block at position i of the local chain (counted from 1) has index i.
C11_IndexIsPosition == \A i \in 1..Len(chain) : chain[i].index = i

\* C12: a freshly constructed Blockchain has exactly one block, of index 1,
\* with previous_hash 1 (the sentinel), proof 100 and no transactions; its
\* pool and its set of nodes are empty.
C12_FreshLedger ==
    response.op = "start" =>
        /\ Len(chain) = 1
        /\ chain[1].kind = "Block"
        /\ chain[1].index = 1
        /\ chain[1].previous_hash = PyInt(1)
        /\ chain[1].proof = 100
        /\ chain[1].transactions = <<>>
        /\ current_transactions = <<>>
        /\ nodes = {}

\* The ledger as constructed, before any request
C12_Witness == response.op = "start" /\ Len(chain) = 1 /\ clock = 1

\* C13: in every state reached by mine, submit, register and resolve requests,
\* a replacement of the chain by resolve_conflicts included, the local chain
\* has at least one block, so last_block is defined.
C13_ChainNeverEmpty == Len(chain) >= 1 /\ last_block(chain) = chain[Len(chain)]

\* resolve_conflicts has replaced the chain
C13_Witness ==
    /\ response.op = "resolve"
    /\ response.value = 1
    /\ chain[1].kind = "dict"
    /\ Len(chain) >= 1

----------------------------------------------------------------------------
(* Properties of proof_of_work *)

\* C14: for every last_proof, the proof that proof_of_work returns is valid
\* against last_proof, and no smaller number from 0 up is.
C14_LeastValidProof ==
    search.pc = "returned" =>
        /\ valid_proof(search.last_proof, search.proof)
        /\ \A smaller \in 0..(search.proof - 1) :
               ~valid_proof(search.last_proof, smaller)

\* A search that passed over at least two numbers before it returned
C14_Witness ==
    /\ search.pc = "returned"
    /\ search.proof >= 2
    /\ valid_proof(search.last_proof, search.proof)

----------------------------------------------------------------------------
(* Properties of the registry of nodes *)

\* C15: a register request stores, for every address of its list, bare
\* host:port or URL with any path, the host:port of the address and nothing
\* else, so that equivalent addresses give one entry of the set of nodes.
C15_RegisterNormalizes ==
    [][\A n \in 1..2 : \A addresses \in [1..n -> Addresses] :
         (response'.op = "register" /\ nodes' = RegisterAll(nodes, addresses))
             => nodes' = nodes \cup {addresses[i].host : i \in 1..n}]_vars

----------------------------------------------------------------------------
(* Properties of resolve_conflicts, one request at a time *)

\* The reply at position i of the log is the first one that claims more blocks
\* than the local chain has, and it carries no block at all
EmptyOffer(log, i, ch) ==
    /\ log[i].reply.status = "200"
    /\ log[i].reply.chain = <<>>
    /\ log[i].reply.length > Len(ch)
    /\ \A j \in 1..(i - 1) :
        log[j].reply.status = "200" => log[j].reply.length <= Len(ch)

\* C16: valid_chain raises on an empty list instead of answering True or False;
\* a resolve that reads an empty chain offered as longer than the local one
\* ends there with that exception and leaves the chain as it was, and no
\* resolve leaves the local chain empty.
C16_EmptyCandidateRejected ==
    [][response'.op = "resolve" =>
         /\ valid_chain(<<>>) \notin {"True", "False"}
         /\ chain' # <<>>
         /\ \A i \in 1..Len(fetched') :
              EmptyOffer(fetched', i, chain) =>
                  /\ i = Len(fetched')
                  /\ response'.error = valid_chain(<<>>)
                  /\ response'.value = 0
                  /\ chain' = chain]_vars

\* A resolve that read an empty chain offered as longer than the local chain
C16_Witness ==
    /\ response.op = "resolve"
    /\ response.error = "IndexError"
    /\ fetched # <<>>
    /\ EmptyOffer(fetched, Len(fetched), chain)
    /\ chain # <<>>

----------------------------------------------------------------------------
(* Properties of the methods called directly *)

\* The chain after a step is the chain before it, or that chain with one more
\* block at its end
AppendedOrKept(before, after) ==
    \/ after = before
    \/ /\ Len(after) = Len(before) + 1
       /\ SubSeq(after, 1, Len(before)) = before

\* C17: a call of new_block or new_transaction leaves the chain as it was or
\* with one more block at its end; every block already in the chain keeps its
\* fields and its list of transactions, and that list keeps its contents, also
\* when new_transaction is called afterwards.
C17_AppendOnly ==
    [][/\ AppendedOrKept(chain, chain')
       /\ \A i \in 1..Len(chain) :
            /\ heap'.blocks[i] = heap.blocks[i]
            /\ heap'.lists[heap.blocks[i]] = heap.lists[heap.blocks[i]]
       /\ \A i \in 1..Len(chain') :
            heap'.lists[heap'.blocks[i]] = chain'[i].transactions]_vars

\* new_transaction was called after a block with transactions was appended
C17_Witness ==
    /\ response.op = "new_transaction"
    /\ Len(chain) >= 2
    /\ chain[2].transactions # <<>>
    /\ current_transactions # <<>>
    /\ heap.lists[heap.blocks[2]] = chain[2].transactions
    /\ heap.lists[heap.pool] = current_transactions

\* C18: new_block(proof, previous_hash) appends a block of index len(chain) + 1
\* with the given proof, whose previous_hash is the value given whenever one is
\* given (0 and "" included) and the hash of the last block only when the
\* argument is left out (None).
C18_GivenHashKept ==
    [][\A proof \in GivenProofs(chain) : \A previous_hash \in GivenHashes(chain) :
         (/\ response'.op = "new_block"
          /\ chain' = new_block(chain, current_transactions, proof,
                                previous_hash, clock).chain)
         => /\ last_block(chain').index = Len(chain) + 1
            /\ last_block(chain').proof = proof
            /\ last_block(chain').previous_hash =
                  IF previous_hash = PyNone THEN hash(last_block(chain))
                  ELSE previous_hash]_vars

----------------------------------------------------------------------------
(* Properties of resolve_conflicts and the pool *)

\* C19: a resolve that reports the chain replaced leaves the local chain with
\* more blocks than it had, whatever the peers answered, and no request leaves
\* it with fewer blocks.
C19_ResolveNeverShortens ==
    [][/\ (response'.op = "resolve" /\ response'.value = 1)
          => Len(chain') > Len(chain)
       /\ Len(chain') >= Len(chain)]_vars

\* C20: resolve_conflicts leaves the pool and the set of nodes as they were,
\* whether it replaces the chain, keeps it or raises; the pool changes only by
\* one transaction appended in new_transaction or by the reset in new_block;
\* and a block appended by new_block, to an adopted chain as to any other,
\* holds exactly the transactions that were pending.
C20_ResolveKeepsPool ==
    [][/\ response'.op = "resolve_conflicts"
          => /\ current_transactions' = current_transactions
             /\ nodes' = nodes
       /\ \/ current_transactions' = current_transactions
          \/ /\ response'.op = "new_transaction"
             /\ Len(current_transactions') = Len(current_transactions) + 1
             /\ Front(current_transactions') = current_transactions
          \/ /\ response'.op = "new_block"
             /\ current_transactions' = <<>>
       /\ Len(chain') = Len(chain) + 1
          => /\ response'.op = "new_block"
             /\ Front(chain') = chain
             /\ Last(chain').transactions = current_transactions]_vars

\* A block appended to the chain adopted by the resolve_conflicts just before,
\* holding a transaction that was pending when the chain was replaced
C20_Witness ==
    /\ response = Result("new_block", "none", 2)
    /\ Len(chain) = 2
    /\ chain[1].kind = "dict"
    /\ chain[2].kind = "Block"
    /\ chain[2].transactions # <<>>
    /\ current_transactions = <<>>
    /\ fetched # <<>>
    /\ Last(fetched).reply.chain = <<chain[1]>>

=============================================================================
